---- MODULE Spec2Model ----
(***************************************************************************)
(* Category tree engine of app/services/category_service.py.               *)
(*                                                                         *)
(* The state is the "categories" collection, the wall clock read by        *)
(* datetime.utcnow(), the outcome of the last service call and the calls   *)
(* in flight.  Each public method of CategoryService is one action (the    *)
(* calls of one method are awaited in order, so a method that runs alone   *)
(* is atomic); for calls that run together each method is also a chain of  *)
(* steps, one per awaited persistence call.                                *)
(* Identifiers are canonical values: the string/UUID representations of    *)
(* one id are taken to denote the same id in every query.                  *)
(***************************************************************************)
EXTENDS Integers, Sequences, FiniteSets, TLC

----------------------------------------------------------------------------
(* Bounds of the model *)

MaxIds == 3

MaxOrder == 2

MaxTime == 1

MaxBatch == 1

MaxNegative == 1

TreeMaxOrder == 0

MaxItems == 2

MaxPage == 3

MaxLimit == 2

MaxCalls == 2

----------------------------------------------------------------------------
(* Values *)

\* parent_id: Optional[UUID] = None; None is the falsy "no parent"
NoId == 0

Ids == 1..MaxIds

\* order: Optional[int] = None; BSON sorts null below every number
NoOrder == -9

\* lowest order value the model lets a stored category take
MinOrder == -MaxNegative

\* highest order value the model lets a stored category take
OrderCap == MaxOrder + 1

\* None of an Optional[str]
NoStr == "<none>"

Names == {"a", "b"}

\* the "files" collection: id -> url
Files == [f1 |-> "u1"]

\* orders a caller may send (-1 is the negative representative)
OrderInputs == -1..MaxOrder

\* parents a caller may name: no parent, or any id (stored or not)
ParentInputs == {NoId} \cup Ids

VARIABLES store, nextId, now, last, calls

vars == <<store, nextId, now, last, calls>>

----------------------------------------------------------------------------
(* Queries on the collection *)

\* find({"parent_id": parent_id}): ids of the categories under one parent
Siblings(s, p) == {c \in DOMAIN s : s[c].parent_id = p}

\* the greatest element of a non-empty set of integers
SetMax(S) == CHOOSE x \in S : \A y \in S : y <= x

\* a next order that counts the siblings instead of taking the highest order
NextOrderByCount(s, p) == Cardinality(Siblings(s, p))

\* _next_order: order of the sibling sorted first by order descending, plus 1
NextOrder(s, p) ==
    IF Siblings(s, p) = {} THEN 0
    ELSE SetMax({s[c].order : c \in Siblings(s, p)}) + 1

\* a uniqueness query that never excludes the record being updated
NameTakenAnyId(s, name, p, exclude) ==
    \E c \in DOMAIN s : s[c].name = name /\ s[c].parent_id = p

\* _check_name_uniqueness: find_one({name, parent_id, id: {$ne: exclude_id}})
NameTaken(s, name, p, exclude) ==
    \E c \in DOMAIN s :
        /\ s[c].name = name
        /\ s[c].parent_id = p
        /\ (exclude # NoId => c # exclude)

\* the while loop of _validate_no_loop from current_id, with `fuel` iterations
\* left: "loop" (raises), "ok" (loop left), "diverge" (never leaves the loop)
RECURSIVE Walk(_, _, _, _)
Walk(s, id, cur, fuel) ==
    IF cur = NoId THEN "ok"
    ELSE IF cur = id THEN "loop"
    ELSE IF cur \notin DOMAIN s THEN "ok"
    ELSE IF fuel = 0 THEN "diverge"
    ELSE Walk(s, id, s[cur].parent_id, fuel - 1)

\* a loop check that looks at the new parent only, not at its ancestors
ValidateNoLoopShallow(s, id, p) == IF p = id THEN "loop" ELSE "ok"

\* a loop check that starts the walk one step late, at the new parent's parent
ValidateNoLoopLate(s, id, p) ==
    IF p \in DOMAIN s THEN Walk(s, id, s[p].parent_id, Cardinality(DOMAIN s)) ELSE "ok"

\* _validate_no_loop: "loop" when it raises, "ok" when it returns
ValidateNoLoop(s, id, p) == Walk(s, id, p, Cardinality(DOMAIN s))

----------------------------------------------------------------------------
(* Image autofill on a data dict: keys is the set of keys present *)

Blank(v) == v = NoStr \/ v = ""

FileFound(img) == img \in DOMAIN Files

\* TRUE when _autofill_image_url raises "invalid image_id"
AutofillFails(keys, image_id, image_url) ==
    /\ "image_id" \in keys
    /\ ~Blank(image_id)
    /\ ("image_url" \notin keys \/ Blank(image_url))
    /\ ~FileFound(image_id)

\* _image_id_empty_string_to_none: the validator of the image_id field
ImageIdValidator(v) == IF v = NoStr \/ v = "" THEN NoStr ELSE v

\* the keys of the dict after _autofill_image_url
AutofillKeys(keys, image_id, image_url) ==
    IF "image_id" \in keys
       /\ (Blank(image_id) \/ "image_url" \notin keys \/ Blank(image_url))
    THEN keys \cup {"image_url"}
    ELSE keys

\* data["image_id"] after _autofill_image_url
AutofillId(keys, image_id, image_url) ==
    IF "image_id" \in keys /\ Blank(image_id) THEN NoStr ELSE image_id

\* an autofill that lets a supplied image_url stand when image_id is cleared
AutofillUrlKeepsSupplied(keys, image_id, image_url) ==
    IF "image_id" \notin keys THEN image_url
    ELSE IF "image_url" \in keys /\ ~Blank(image_url) THEN image_url
    ELSE IF Blank(image_id) THEN NoStr
    ELSE Files[image_id]

\* data["image_url"] after _autofill_image_url
AutofillUrl(keys, image_id, image_url) ==
    IF "image_id" \notin keys THEN image_url
    ELSE IF Blank(image_id) THEN NoStr
    ELSE IF "image_url" \notin keys \/ Blank(image_url) THEN Files[image_id]
    ELSE image_url

----------------------------------------------------------------------------
(* Outcome of the last call *)

Outcome(op, status, id, from, to, set) ==
    [op |-> op, status |-> status, id |-> id, from |-> from, to |-> to, set |-> set]

\* the service calls that may be in flight together (one per request task)
Procs == 1..MaxCalls

\* the payload of a call that has not started
NoPayload == [set |-> {}, keys |-> {}]

\* a call in flight: the method (op), the await it stands before (pc), its
\* arguments (id, p, k) and its local variables: current_id of the ancestor
\* walk (cur), new_name (name), new_parent_id / parent_id (parent) and
\* current_order / data["order"] (order); status is what it returned or
\* raised, wrote whether one of its persistence calls changed the collection
IdleCall ==
    [op |-> "idle", pc |-> "idle", id |-> NoId, p |-> NoPayload, k |-> 0,
     cur |-> NoId, name |-> NoStr, parent |-> NoId, order |-> NoOrder,
     status |-> "none", wrote |-> FALSE]

Init ==
    /\ store = <<>>
    /\ nextId = 1
    /\ now = 0
    /\ last = Outcome("none", "ok", NoId, 0, 0, {})
    /\ calls = [c \in Procs |-> IdleCall]

\* the wall clock read by datetime.utcnow() advances on its own
Tick ==
    /\ now < MaxTime
    /\ now' = now + 1
    /\ UNCHANGED <<store, nextId, last, calls>>

----------------------------------------------------------------------------
(* create *)

\* a create that does not look its parent up
CreateStatusNoParentCheck(s, p) ==
    IF NameTaken(s, p.name, p.parent_id, NoId) THEN "duplicate_name"
    ELSE IF p.order = NoOrder /\ Siblings(s, p.parent_id) # {}
            /\ (\A c \in Siblings(s, p.parent_id) : s[c].order = NoOrder)
    THEN "order_type_error"
    ELSE IF AutofillFails(p.keys, p.image_id, p.image_url) THEN "invalid_image"
    ELSE "ok"

\* _next_order raises TypeError: the sibling sorted first by order
\* descending has order None (every sibling has), and None + 1 is undefined
NextOrderRaises(s, p) ==
    /\ Siblings(s, p) # {}
    /\ \A c \in Siblings(s, p) : s[c].order = NoOrder

\* the error create raises on payload p, or "ok"
CreateStatus(s, p) ==
    IF p.parent_id # NoId /\ p.parent_id \notin DOMAIN s THEN "parent_not_found"
    ELSE IF NameTaken(s, p.name, p.parent_id, NoId) THEN "duplicate_name"
    ELSE IF p.order = NoOrder /\ NextOrderRaises(s, p.parent_id) THEN "order_type_error"
    ELSE IF AutofillFails(p.keys, p.image_id, p.image_url) THEN "invalid_image"
    ELSE "ok"

\* the order create stores: the payload's, or _next_order when it is None
CreateOrder(s, p) ==
    IF p.order = NoOrder THEN NextOrder(s, p.parent_id) ELSE p.order

\* the document create inserts at time t
CreateDoc(s, p, t) ==
    [name        |-> p.name,
     description |-> IF "description" \in p.keys THEN p.description ELSE NoStr,
     parent_id   |-> p.parent_id,
     order       |-> CreateOrder(s, p),
     image_id    |-> IF "image_id" \in p.keys
                     THEN AutofillId(p.keys, p.image_id, p.image_url) ELSE NoStr,
     image_url   |-> IF "image_url" \in AutofillKeys(p.keys, p.image_id, p.image_url)
                     THEN AutofillUrl(p.keys, p.image_id, p.image_url) ELSE NoStr,
     created_at  |-> t,
     updated_at  |-> t]

\* insert_one
Insert(s, id, doc) == [c \in DOMAIN s \cup {id} |-> IF c = id THEN doc ELSE s[c]]

\* every stored order within the range the model follows
InRange(s) == \A c \in DOMAIN s : s[c].order = NoOrder \/ s[c].order \in MinOrder..OrderCap

\* the collection after create(p) at time t, id being the uuid4 drawn
CreateAfter(s, p, id, t) ==
    IF CreateStatus(s, p) = "ok" THEN Insert(s, id, CreateDoc(s, p, t)) ELSE s

Create(p) ==
    /\ IF CreateStatus(store, p) = "ok"
       THEN /\ nextId <= MaxIds
            /\ store' = CreateAfter(store, p, nextId, now)
            /\ InRange(store')
            /\ nextId' = nextId + 1
            /\ last' = Outcome("create", "ok", nextId, 0, 0,
                               IF p.order = NoOrder THEN {} ELSE {"order"})
       ELSE /\ UNCHANGED <<store, nextId>>
            /\ last' = Outcome("create", CreateStatus(store, p), NoId, 0, 0, {})
    /\ UNCHANGED <<now, calls>>

----------------------------------------------------------------------------
(* update *)

\* new_name: the patch's name when set, else the current one
EffName(s, id, p) == IF "name" \in p.set THEN p.name ELSE s[id].name

\* an effective parent that ignores the patch
EffParentStale(s, id, p) == s[id].parent_id

\* new_parent_id: the patch's parent_id when set, else the current one
EffParent(s, id, p) == IF "parent_id" \in p.set THEN p.parent_id ELSE s[id].parent_id

\* the parent checks run: parent_id is in the patch and is not None
ParentChecked(p) == "parent_id" \in p.set /\ p.parent_id # NoId

\* the order branch runs: order is in the patch and is not None
OrderGiven(p) == "order" \in p.set /\ p.order # NoOrder

\* what update returns or raises on (id, patch p): "ok", "not_found" (None) or the error
UpdateStatus(s, id, p) ==
    IF id \notin DOMAIN s THEN "not_found"
    ELSE IF ParentChecked(p) /\ ValidateNoLoop(s, id, p.parent_id) = "loop" THEN "cycle"
    ELSE IF ParentChecked(p) /\ ValidateNoLoop(s, id, p.parent_id) = "diverge" THEN "diverge"
    ELSE IF ParentChecked(p) /\ p.parent_id \notin DOMAIN s THEN "parent_not_found"
    ELSE IF NameTaken(s, EffName(s, id, p), EffParent(s, id, p), id) THEN "duplicate_name"
    ELSE IF AutofillFails(p.set, p.image_id, p.image_url) THEN "invalid_image"
    ELSE IF OrderGiven(p) /\ p.order < 0 THEN "negative_order"
    ELSE "ok"

\* a collision query without id: {$ne: id_}: the category collides with itself
OrderCollidesWithSelf(s, id, p) ==
    \E c \in Siblings(s, EffParent(s, id, p)) : s[c].order = p.order

\* find_one({parent_id, order, id: {$ne: id_}}): a sibling already holds the order
OrderCollides(s, id, p) ==
    \E c \in Siblings(s, EffParent(s, id, p)) \ {id} : s[c].order = p.order

\* a shift that leaves the sibling holding the order itself in place ($gt)
ShiftUpStrict(s, id, parent, k, t) ==
    [c \in DOMAIN s |->
        IF c # id /\ s[c].parent_id = parent /\ s[c].order > k
        THEN [s[c] EXCEPT !.order = @ + 1, !.updated_at = t]
        ELSE s[c]]

\* update_many({parent_id, order: {$gte: k}, id: {$ne: id_}}, {$inc: {order: 1}, ...})
ShiftUp(s, id, parent, k, t) ==
    [c \in DOMAIN s |->
        IF c # id /\ s[c].parent_id = parent /\ s[c].order >= k
        THEN [s[c] EXCEPT !.order = @ + 1, !.updated_at = t]
        ELSE s[c]]

\* a $set of the whole payload (model_dump() without exclude_unset): a field
\* the patch leaves out is written with its default, None
SetDocWhole(r, p, t) ==
    [name        |-> IF "name" \in p.set THEN p.name ELSE NoStr,
     description |-> IF "description" \in p.set THEN p.description ELSE NoStr,
     parent_id   |-> IF "parent_id" \in p.set THEN p.parent_id ELSE r.parent_id,
     order       |-> IF "order" \in p.set THEN p.order ELSE r.order,
     image_id    |-> IF "image_id" \in p.set
                     THEN AutofillId(p.set, p.image_id, p.image_url) ELSE NoStr,
     image_url   |-> IF "image_url" \in AutofillKeys(p.set, p.image_id, p.image_url)
                     THEN AutofillUrl(p.set, p.image_id, p.image_url) ELSE NoStr,
     created_at  |-> r.created_at,
     updated_at  |-> t]

\* the update_doc of find_one_and_update applied to one record at time t
SetDoc(r, p, t) ==
    [name        |-> IF "name" \in p.set THEN p.name ELSE r.name,
     description |-> IF "description" \in p.set THEN p.description ELSE r.description,
     parent_id   |-> IF "parent_id" \in p.set THEN p.parent_id ELSE r.parent_id,
     order       |-> IF "order" \in p.set THEN p.order ELSE r.order,
     image_id    |-> IF "image_id" \in p.set
                     THEN AutofillId(p.set, p.image_id, p.image_url) ELSE r.image_id,
     image_url   |-> IF "image_url" \in AutofillKeys(p.set, p.image_id, p.image_url)
                     THEN AutofillUrl(p.set, p.image_id, p.image_url) ELSE r.image_url,
     created_at  |-> r.created_at,
     updated_at  |-> t]

\* the collection after a successful update at time t
UpdateStore(s, id, p, t) ==
    LET shifted == IF OrderGiven(p) /\ OrderCollides(s, id, p)
                   THEN ShiftUp(s, id, EffParent(s, id, p), p.order, t)
                   ELSE s
    IN  [shifted EXCEPT ![id] = SetDoc(shifted[id], p, t)]

\* how many siblings the update_many of update(id, p) matches (0 when it does not run)
ShiftCount(s, id, p) ==
    IF id \in DOMAIN s /\ OrderGiven(p) /\ OrderCollides(s, id, p)
    THEN Cardinality({c \in Siblings(s, EffParent(s, id, p)) \ {id} : s[c].order >= p.order})
    ELSE 0

\* the collection after update(id, p) at time t: nothing is written
\* before the last check has passed
UpdateAfter(s, id, p, t) ==
    IF UpdateStatus(s, id, p) = "ok" THEN UpdateStore(s, id, p, t) ELSE s

\* what the caller of update gets: the status of the checks, or, after
\* the write, the ValidationError of Category(**updated) on a name that is None
UpdateReturn(s, id, p) ==
    IF UpdateStatus(s, id, p) # "ok" THEN UpdateStatus(s, id, p)
    ELSE IF UpdateAfter(s, id, p, 0)[id].name = NoStr THEN "response_invalid"
    ELSE "ok"

Update(id, p) ==
    /\ store' = UpdateAfter(store, id, p, now)
    /\ InRange(store')
    /\ last' = IF UpdateStatus(store, id, p) = "ok"
               THEN Outcome("update", UpdateReturn(store, id, p), id, 0,
                            ShiftCount(store, id, p), p.set)
               ELSE Outcome("update", UpdateStatus(store, id, p), NoId, 0, 0, {})
    /\ UNCHANGED <<nextId, now, calls>>

----------------------------------------------------------------------------
(* delete *)

\* a delete that does not look for children
DeleteStatusNoChildCheck(s, id) == IF id \notin DOMAIN s THEN "not_found" ELSE "ok"

\* what delete returns or raises: "ok" (True), "not_found" (False), "has_children"
DeleteStatus(s, id) ==
    IF id \notin DOMAIN s THEN "not_found"
    ELSE IF Siblings(s, id) # {} THEN "has_children"
    ELSE "ok"

\* a removal that also closes the gap, moving the later siblings down by one
RemoveAndCloseGap(s, id) ==
    [c \in DOMAIN s \ {id} |->
        IF id \in DOMAIN s /\ s[c].parent_id = s[id].parent_id /\ s[c].order > s[id].order
        THEN [s[c] EXCEPT !.order = @ - 1]
        ELSE s[c]]

\* delete_one({"id": id_})
Remove(s, id) == [c \in DOMAIN s \ {id} |-> s[c]]

\* the collection after delete(id)
DeleteAfter(s, id) == IF DeleteStatus(s, id) = "ok" THEN Remove(s, id) ELSE s

\* the outcome records the order (from) and the parent (to) of a deleted category
Delete(id) ==
    /\ store' = DeleteAfter(store, id)
    /\ last' = IF DeleteStatus(store, id) = "ok"
               THEN Outcome("delete", "ok", NoId, store[id].order, store[id].parent_id, {})
               ELSE Outcome("delete", DeleteStatus(store, id), NoId, 0, 0, {})
    /\ UNCHANGED <<nextId, now, calls>>

----------------------------------------------------------------------------
(* reorder (bulk) *)

\* a validation loop without the len(parent_ids) > 1 test after it
RECURSIVE ReorderScanAnyParent(_, _, _, _, _)
ReorderScanAnyParent(s, items, i, parents, orders) ==
    IF i > Len(items) THEN "ok"
    ELSE IF items[i].order = NoOrder \/ items[i].order < 0 THEN "invalid_order"
    ELSE IF items[i].id \notin DOMAIN s THEN "not_found"
    ELSE IF items[i].order \in orders THEN "duplicate_order"
    ELSE ReorderScanAnyParent(s, items, i + 1,
                              parents \cup {s[items[i].id].parent_id},
                              orders \cup {items[i].order})

\* the validation loop of reorder from item i on, with the parent_ids and
\* orders sets collected so far; then the len(parent_ids) > 1 test
RECURSIVE ReorderScan(_, _, _, _, _)
ReorderScan(s, items, i, parents, orders) ==
    IF i > Len(items)
    THEN IF Cardinality(parents) > 1 THEN "mixed_parents" ELSE "ok"
    ELSE IF items[i].order = NoOrder \/ items[i].order < 0 THEN "invalid_order"
    ELSE IF items[i].id \notin DOMAIN s THEN "not_found"
    ELSE IF items[i].order \in orders THEN "duplicate_order"
    ELSE ReorderScan(s, items, i + 1,
                     parents \cup {s[items[i].id].parent_id},
                     orders \cup {items[i].order})

\* what reorder returns or raises on a batch
ReorderStatus(s, items) ==
    IF Len(items) = 0 THEN "ok" ELSE ReorderScan(s, items, 1, {}, {})

\* the update_one calls of reorder from item i on, in batch order
RECURSIVE ReorderApply(_, _, _, _)
ReorderApply(s, items, i, t) ==
    IF i > Len(items) THEN s
    ELSE ReorderApply(
            IF items[i].id \in DOMAIN s
            THEN [s EXCEPT ![items[i].id].order = items[i].order,
                           ![items[i].id].updated_at = t]
            ELSE s,
            items, i + 1, t)

\* the item at which the validation loop raises, counted from 1 (0 when it
\* runs to its end)
ReorderRaisedAt(s, items) ==
    IF ReorderStatus(s, items) \in {"ok", "mixed_parents"} THEN 0
    ELSE CHOOSE i \in 1..Len(items) :
            /\ ReorderStatus(s, SubSeq(items, 1, i)) = ReorderStatus(s, items)
            /\ \A j \in 1..(i - 1) :
                  ReorderStatus(s, SubSeq(items, 1, j)) \in {"ok", "mixed_parents"}

\* a reorder with one loop: each item is written as soon as it has passed
\* its own checks
RECURSIVE ReorderEagerFrom(_, _, _, _, _)
ReorderEagerFrom(s, items, i, orders, t) ==
    IF i > Len(items) THEN s
    ELSE IF items[i].order < 0 \/ items[i].id \notin DOMAIN s \/ items[i].order \in orders
    THEN s
    ELSE ReorderEagerFrom([s EXCEPT ![items[i].id].order = items[i].order,
                                    ![items[i].id].updated_at = t],
                          items, i + 1, orders \cup {items[i].order}, t)

ReorderEager(s, items, t) == ReorderEagerFrom(s, items, 1, {}, t)

\* the collection after reorder(items) at time t
ReorderAfter(s, items, t) ==
    IF ReorderStatus(s, items) = "ok" THEN ReorderApply(s, items, 1, t) ELSE s

\* the outcome records the length of the batch (from) and the item that
\* made the call fail (to)
Reorder(items) ==
    /\ store' = ReorderAfter(store, items, now)
    /\ last' = Outcome("reorder", ReorderStatus(store, items), NoId,
                       Len(items), ReorderRaisedAt(store, items), {})
    /\ UNCHANGED <<nextId, now, calls>>

----------------------------------------------------------------------------
(* reorder_single *)

\* what reorder_single returns or raises
ReorderSingleStatus(s, id, new_order) ==
    IF new_order < 0 THEN "negative_order"
    ELSE IF id \notin DOMAIN s THEN "not_found"
    ELSE IF s[id].order = NoOrder THEN "order_type_error"
    ELSE "ok"

\* a direction with the comparison turned round
DirectionFlipped(cur, new_order) == IF new_order > cur THEN -1 ELSE 1

\* direction = 1 if new_order > current_order else -1
Direction(cur, new_order) == IF new_order > cur THEN 1 ELSE -1

\* low, high = (current_order, new_order) if current_order <= new_order else reversed
Low(cur, new_order) == IF cur <= new_order THEN cur ELSE new_order

High(cur, new_order) == IF cur <= new_order THEN new_order ELSE cur

\* a range shift with exclusive bounds ($gt, $lt)
ShiftRangeExclusive(s, id, parent, low, high, direction, t) ==
    [c \in DOMAIN s |->
        IF c # id /\ s[c].parent_id = parent /\ s[c].order > low /\ s[c].order < high
        THEN [s[c] EXCEPT !.order = @ - direction, !.updated_at = t]
        ELSE s[c]]

\* a range shift whose filter leaves out parent_id
ShiftRangeAnyParent(s, id, parent, low, high, direction, t) ==
    [c \in DOMAIN s |->
        IF c # id /\ s[c].order >= low /\ s[c].order <= high
        THEN [s[c] EXCEPT !.order = @ - direction, !.updated_at = t]
        ELSE s[c]]

\* update_many({parent_id, order: {$gte: low, $lte: high}, id: {$ne: category_id}},
\*             {$inc: {order: -direction}, $set: {updated_at}})
ShiftRange(s, id, parent, low, high, direction, t) ==
    [c \in DOMAIN s |->
        IF c # id /\ s[c].parent_id = parent /\ s[c].order >= low /\ s[c].order <= high
        THEN [s[c] EXCEPT !.order = @ - direction, !.updated_at = t]
        ELSE s[c]]

\* update_one({"id": category_id}, {$set: {order: new_order, updated_at}})
Place(s, id, new_order, t) ==
    [s EXCEPT ![id].order = new_order, ![id].updated_at = t]

\* the collection after a successful reorder_single at time t
ReorderSingleStore(s, id, new_order, t) ==
    IF new_order = s[id].order THEN s
    ELSE Place(ShiftRange(s, id, s[id].parent_id,
                          Low(s[id].order, new_order), High(s[id].order, new_order),
                          Direction(s[id].order, new_order), t),
               id, new_order, t)

\* the collection after reorder_single(id, new_order) at time t
ReorderSingleAfter(s, id, new_order, t) ==
    IF ReorderSingleStatus(s, id, new_order) = "ok"
    THEN ReorderSingleStore(s, id, new_order, t) ELSE s

ReorderSingle(id, new_order) ==
    /\ IF ReorderSingleStatus(store, id, new_order) = "ok"
       THEN /\ store' = ReorderSingleAfter(store, id, new_order, now)
            /\ InRange(store')
            /\ last' = Outcome("reorder_single", "ok", id, store[id].order, new_order, {})
       ELSE /\ UNCHANGED store
            /\ last' = Outcome("reorder_single",
                               ReorderSingleStatus(store, id, new_order), NoId, 0, 0, {})
    /\ UNCHANGED <<nextId, now, calls>>

----------------------------------------------------------------------------
(* list *)

\* find(query): the categories that have the value of every key of the filter
Matches(s, f) ==
    {c \in DOMAIN s :
        /\ ("name" \in f.keys => s[c].name = f.name)
        /\ ("parent_id" \in f.keys => s[c].parent_id = f.parent_id)}

\* the sort key (parent_id, order) of c is not above that of d; None comes first
KeyLeq(s, c, d) ==
    \/ s[c].parent_id < s[d].parent_id
    \/ s[c].parent_id = s[d].parent_id /\ s[c].order <= s[d].order

\* sort([("parent_id", 1), ("order", 1)]): the arrangements of M the sort may
\* return; records with equal keys come in an order the database chooses
Sorted(s, M) ==
    {q \in [1..Cardinality(M) -> M] :
        /\ \A i, j \in 1..Cardinality(M) : i # j => q[i] # q[j]
        /\ \A i, j \in 1..Cardinality(M) : i < j => KeyLeq(s, q[i], q[j])}

\* a window that skips page * limit records
PageSkipsByPage(q, page, limit) ==
    SubSeq(q, page * limit + 1,
           IF page * limit + limit <= Len(q) THEN page * limit + limit ELSE Len(q))

\* skip((page - 1) * limit).limit(limit) on the sorted records
Page(q, page, limit) ==
    SubSeq(q, (page - 1) * limit + 1,
           IF (page - 1) * limit + limit <= Len(q) THEN (page - 1) * limit + limit ELSE Len(q))

\* the item lists list(filters, page, limit) may return
ListItems(s, f, page, limit) == {Page(q, page, limit) : q \in Sorted(s, Matches(s, f))}

\* count_documents(query)
ListTotal(s, f) == Cardinality(Matches(s, f))

\* the outcome records the total (from), the number of items (to) and the
\* first item (id)
List(f, page, limit) ==
    /\ \E items \in ListItems(store, f, page, limit) :
          last' = Outcome("list", "ok", IF Len(items) = 0 THEN NoId ELSE items[1],
                          ListTotal(store, f), Len(items), {})
    /\ UNCHANGED <<store, nextId, now, calls>>

----------------------------------------------------------------------------
(* Inputs of the calls *)

CreateInput(name, parent, order) ==
    [name |-> name, parent_id |-> parent, order |-> order, keys |-> {},
     description |-> NoStr, image_id |-> NoStr, image_url |-> NoStr]

PatchInput(set, name, parent, order) ==
    [set |-> set, name |-> name, parent_id |-> parent, order |-> order,
     description |-> NoStr, image_id |-> NoStr, image_url |-> NoStr]

\* CategoryUpdate patches that set exactly the fields of some subset of `fields`
Patches(fields, names, parents, orders) ==
    UNION {{PatchInput(S, n, p, o) :
                n \in (IF "name" \in S THEN names ELSE {NoStr}),
                p \in (IF "parent_id" \in S THEN parents ELSE {NoId}),
                o \in (IF "order" \in S THEN orders ELSE {NoOrder})} :
           S \in SUBSET fields}

SeqsUpTo(S, n) == UNION {[1..k -> S] : k \in 0..n}

----------------------------------------------------------------------------
(* Calls that run together.  A call is a chain of steps, one per awaited   *)
(* persistence call; the code between two awaits runs with the step that   *)
(* precedes it.  The lookups in the static "files" collection run with     *)
(* the step before them.                                                   *)

\* the call has returned or raised `status`
Done(r, status) == [r EXCEPT !.pc = "done", !.status = status]

\* a unique index that is not there
IndexAbsent(s, id, name, parent) == FALSE

\* the unique index uniq_name_per_parent of ensure_indexes: a write that
\* would give the record `id` the pair (parent_id, name) of another record
\* fails with DuplicateKeyError and writes nothing
IndexRejects(s, id, name, parent) ==
    \E c \in DOMAIN s \ {id} : s[c].name = name /\ s[c].parent_id = parent

\* a final write that always reports the category as lost
LostAlways(s, id) == TRUE

\* find_one_and_update({"id": id_}, ...) returns None: no record matches
Lost(s, id) == id \notin DOMAIN s

\* one step of call c: the persistence call leaves the collection s2 and the
\* call in r
Advance(c, r, s2) ==
    /\ store' = s2
    /\ InRange(s2)
    /\ calls' = [calls EXCEPT ![c] = [r EXCEPT !.wrote = calls[c].wrote \/ s2 # store]]
    /\ UNCHANGED <<now, last>>

At(c, op, pc) == calls[c].op = op /\ calls[c].pc = pc

\* create, lines 131-135: get(parent_id) when the payload names a parent
CreateCheckParent(c, p) ==
    /\ calls[c].pc = "idle"
    /\ LET r == [IdleCall EXCEPT !.op = "create", !.p = p, !.name = p.name,
                                 !.parent = p.parent_id, !.order = p.order]
       IN  Advance(c, IF p.parent_id # NoId /\ p.parent_id \notin DOMAIN store
                      THEN Done(r, "parent_not_found")
                      ELSE [r EXCEPT !.pc = "name"],
                   store)
    /\ UNCHANGED nextId

\* create, lines 138-151: the find_one of _check_name_uniqueness, and the
\* autofill when the payload carries its order
CreateCheckName(c) ==
    /\ At(c, "create", "name")
    /\ LET r == calls[c]
       IN  Advance(c, IF NameTaken(store, r.name, r.parent, NoId)
                      THEN Done(r, "duplicate_name")
                      ELSE IF r.p.order = NoOrder THEN [r EXCEPT !.pc = "order"]
                      ELSE IF AutofillFails(r.p.keys, r.p.image_id, r.p.image_url)
                      THEN Done(r, "invalid_image")
                      ELSE [r EXCEPT !.pc = "insert"],
                   store)
    /\ UNCHANGED nextId

\* create, lines 147-151: the find of _next_order, and the autofill
CreateNextOrder(c) ==
    /\ At(c, "create", "order")
    /\ LET r == calls[c]
       IN  Advance(c, IF NextOrderRaises(store, r.parent)
                      THEN Done(r, "order_type_error")
                      ELSE IF AutofillFails(r.p.keys, r.p.image_id, r.p.image_url)
                      THEN Done(r, "invalid_image")
                      ELSE [r EXCEPT !.pc = "insert", !.order = NextOrder(store, r.parent)],
                   store)
    /\ UNCHANGED nextId

\* create, line 153: insert_one(data)
CreateInsert(c) ==
    /\ At(c, "create", "insert")
    /\ LET r == calls[c]
       IN  IF IndexRejects(store, NoId, r.name, r.parent)
           THEN /\ Advance(c, Done(r, "duplicate_key"), store)
                /\ UNCHANGED nextId
           ELSE /\ nextId <= MaxIds
                /\ Advance(c, Done([r EXCEPT !.id = nextId], "ok"),
                           Insert(store, nextId,
                                  [CreateDoc(store, r.p, now) EXCEPT !.order = r.order]))
                /\ nextId' = nextId + 1

\* update, lines 177-186: find_one({"id": id_}); new_name and new_parent_id
\* are taken from this read
UpdateFind(c, id, p) ==
    /\ calls[c].pc = "idle"
    /\ LET r == [IdleCall EXCEPT !.op = "update", !.id = id, !.p = p]
       IN  Advance(c, IF id \notin DOMAIN store THEN Done(r, "not_found")
                      ELSE IF ParentChecked(p) /\ p.parent_id = id THEN Done(r, "cycle")
                      ELSE [r EXCEPT !.name = EffName(store, id, p),
                                     !.parent = EffParent(store, id, p),
                                     !.cur = IF ParentChecked(p) THEN p.parent_id ELSE NoId,
                                     !.pc = IF ParentChecked(p) THEN "walk" ELSE "name"],
                   store)
    /\ UNCHANGED nextId

\* _validate_no_loop, lines 104-110: one get(current_id) of the while loop
UpdateWalk(c) ==
    /\ At(c, "update", "walk")
    /\ LET r == calls[c]
       IN  Advance(c, IF r.cur \notin DOMAIN store THEN [r EXCEPT !.pc = "parent"]
                      ELSE IF store[r.cur].parent_id = NoId THEN [r EXCEPT !.pc = "parent"]
                      ELSE IF store[r.cur].parent_id = r.id THEN Done(r, "cycle")
                      ELSE [r EXCEPT !.cur = store[r.cur].parent_id],
                   store)
    /\ UNCHANGED nextId

\* update, lines 187-189: get(new_parent_id)
UpdateCheckParent(c) ==
    /\ At(c, "update", "parent")
    /\ LET r == calls[c]
       IN  Advance(c, IF r.p.parent_id \notin DOMAIN store
                      THEN Done(r, "parent_not_found")
                      ELSE [r EXCEPT !.pc = "name"],
                   store)
    /\ UNCHANGED nextId

\* update, lines 196-206: the find_one of _check_name_uniqueness, the
\* autofill and the test of the sign of the order
UpdateCheckName(c) ==
    /\ At(c, "update", "name")
    /\ LET r == calls[c]
       IN  Advance(c, IF NameTaken(store, r.name, r.parent, r.id)
                      THEN Done(r, "duplicate_name")
                      ELSE IF AutofillFails(r.p.set, r.p.image_id, r.p.image_url)
                      THEN Done(r, "invalid_image")
                      ELSE IF OrderGiven(r.p) /\ r.p.order < 0
                      THEN Done(r, "negative_order")
                      ELSE [r EXCEPT !.pc = IF OrderGiven(r.p) THEN "collide" ELSE "set"],
                   store)
    /\ UNCHANGED nextId

\* update, lines 209-213: find_one({parent_id, order, id: {$ne: id_}})
UpdateFindCollision(c) ==
    /\ At(c, "update", "collide")
    /\ LET r == calls[c]
       IN  Advance(c, IF \E d \in Siblings(store, r.parent) \ {r.id} :
                             store[d].order = r.p.order
                      THEN [r EXCEPT !.pc = "shift"]
                      ELSE [r EXCEPT !.pc = "set"],
                   store)
    /\ UNCHANGED nextId

\* update, lines 215-222: update_many shifting the siblings
UpdateShift(c) ==
    /\ At(c, "update", "shift")
    /\ LET r == calls[c]
       IN  Advance(c, [r EXCEPT !.pc = "set"],
                   ShiftUp(store, r.id, r.parent, r.p.order, now))
    /\ UNCHANGED nextId

\* update, lines 227-238: find_one_and_update({"id": id_}, {"$set": update_doc})
UpdateSet(c) ==
    /\ At(c, "update", "set")
    /\ LET r == calls[c]
       IN  IF Lost(store, r.id) THEN Advance(c, Done(r, "not_found"), store)
           ELSE LET doc == SetDoc(store[r.id], r.p, now)
                IN  IF IndexRejects(store, r.id, doc.name, doc.parent_id)
                    THEN Advance(c, Done(r, "duplicate_key"), store)
                    ELSE Advance(c, Done(r, IF doc.name = NoStr
                                            THEN "response_invalid" ELSE "ok"),
                                 [store EXCEPT ![r.id] = doc])
    /\ UNCHANGED nextId

\* delete, lines 243-245: find_one({"id": id_})
DeleteFind(c, id) ==
    /\ calls[c].pc = "idle"
    /\ LET r == [IdleCall EXCEPT !.op = "delete", !.id = id]
       IN  Advance(c, IF id \notin DOMAIN store THEN Done(r, "not_found")
                      ELSE [r EXCEPT !.pc = "children"],
                   store)
    /\ UNCHANGED nextId

\* delete, lines 248-250: find_one({"parent_id": id_})
DeleteCheckChildren(c) ==
    /\ At(c, "delete", "children")
    /\ LET r == calls[c]
       IN  Advance(c, IF Siblings(store, r.id) # {} THEN Done(r, "has_children")
                      ELSE [r EXCEPT !.pc = "remove"],
                   store)
    /\ UNCHANGED nextId

\* delete, lines 252-258: delete_one({"id": id_}); False when nothing was deleted
DeleteRemove(c) ==
    /\ At(c, "delete", "remove")
    /\ LET r == calls[c]
       IN  IF r.id \in DOMAIN store
           THEN Advance(c, Done(r, "ok"), Remove(store, r.id))
           ELSE Advance(c, Done(r, "not_found"), store)
    /\ UNCHANGED nextId

\* reorder_single, lines 309-325: the test of the sign, then get(category_id)
MoveRead(c, id, k) ==
    /\ calls[c].pc = "idle"
    /\ LET r == [IdleCall EXCEPT !.op = "reorder_single", !.id = id, !.k = k]
       IN  Advance(c, IF ReorderSingleStatus(store, id, k) # "ok"
                      THEN Done(r, ReorderSingleStatus(store, id, k))
                      ELSE IF store[id].order = k THEN Done(r, "ok")
                      ELSE [r EXCEPT !.pc = "shift", !.parent = store[id].parent_id,
                                     !.order = store[id].order],
                   store)
    /\ UNCHANGED nextId

\* reorder_single, lines 328-338: update_many shifting the range [low, high]
MoveShift(c) ==
    /\ At(c, "reorder_single", "shift")
    /\ LET r == calls[c]
       IN  Advance(c, [r EXCEPT !.pc = "place"],
                   ShiftRange(store, r.id, r.parent, Low(r.order, r.k), High(r.order, r.k),
                              Direction(r.order, r.k), now))
    /\ UNCHANGED nextId

\* reorder_single, lines 341-347: update_one placing the target (a no-op
\* when no record matches)
MovePlace(c) ==
    /\ At(c, "reorder_single", "place")
    /\ LET r == calls[c]
       IN  Advance(c, Done(r, "ok"),
                   IF r.id \in DOMAIN store THEN Place(store, r.id, r.k, now) ELSE store)
    /\ UNCHANGED nextId

\* the request is answered; its task may serve the next request
Return(c) ==
    /\ calls[c].pc = "done"
    /\ calls' = [calls EXCEPT ![c] = IdleCall]
    /\ UNCHANGED <<store, nextId, now, last>>

\* no call is in flight
AllIdle == \A c \in Procs : calls[c].pc = "idle"

\* every call has returned or raised
AllDone == \A c \in Procs : calls[c].pc = "done"

----------------------------------------------------------------------------
(* The tree: names and parents.  Every call runs alone; callers name any   *)
(* parent, stored or not, and leave the order to the service or send a     *)
(* small one.                                                              *)

TreeOrders == 0..TreeMaxOrder

TreeCreateInputs ==
    {CreateInput(n, p, NoOrder) : n \in Names, p \in ParentInputs}

TreePatchInputs == Patches({"name", "parent_id"}, Names, ParentInputs, TreeOrders)

TreeReorderInputs == SeqsUpTo([id : Ids, order : TreeOrders], MaxBatch)

Next ==
    \/ \E p \in TreeCreateInputs : Create(p)
    \/ \E id \in Ids, p \in TreePatchInputs : Update(id, p)
    \/ \E id \in Ids : Delete(id)
    \/ \E items \in TreeReorderInputs : Reorder(items)
    \/ \E id \in Ids, k \in TreeOrders : ReorderSingle(id, k)

Spec == Init /\ [][Next]_vars

----------------------------------------------------------------------------
(* The sibling order.  Callers give every new category a fresh name, put   *)
(* it at the root or under the first category, and send any order.         *)

OrderParents == {NoId, 1}

OrderCreateInputs ==
    {CreateInput(ToString(nextId), p, o) : p \in OrderParents, o \in {NoOrder} \cup OrderInputs}

OrderPatchInputs == Patches({"parent_id", "order"}, Names, OrderParents, OrderInputs)

OrderNext ==
    \/ \E p \in OrderCreateInputs : Create(p)
    \/ \E id \in Ids, p \in OrderPatchInputs : Update(id, p)
    \/ \E id \in Ids : Delete(id)
    \/ \E id \in Ids, k \in OrderInputs : ReorderSingle(id, k)

SpecOrder == Init /\ [][OrderNext]_vars

----------------------------------------------------------------------------
(* The sibling order under a running clock: creations, deletions and     *)
(* single moves, with time passing between the calls.                      *)

ClockNext ==
    \/ Tick
    \/ \E p \in OrderCreateInputs : Create(p)
    \/ \E id \in Ids : Delete(id)
    \/ \E id \in Ids, k \in OrderInputs : ReorderSingle(id, k)

SpecClock == Init /\ [][ClockNext]_vars

----------------------------------------------------------------------------
(* Bulk reorder.  Callers create categories with fresh names at the root   *)
(* or under the first category and send batches of up to MaxItems items    *)
(* naming any id (stored or not) and any order.                            *)

BatchCreateInputs == {CreateInput(ToString(nextId), p, NoOrder) : p \in OrderParents}

BatchInputs == SeqsUpTo([id : Ids, order : OrderInputs], MaxItems)

BatchNext ==
    \/ \E p \in BatchCreateInputs : Create(p)
    \/ \E items \in BatchInputs : Reorder(items)

SpecBatch == Init /\ [][BatchNext]_vars

----------------------------------------------------------------------------
(* Listing.  Callers create categories under any stored parent, leave the  *)
(* order to the service or send 0 (so that siblings may tie), and list     *)
(* with any filter, page and limit.                                        *)

ListCreateInputs ==
    {CreateInput(n, p, o) : n \in Names, p \in OrderParents, o \in {NoOrder, 0}}

\* filters: a dict with any of the keys name and parent_id
Filters ==
    {[keys |-> K, name |-> n, parent_id |-> p] :
        K \in SUBSET {"name", "parent_id"}, n \in Names, p \in OrderParents}

Pages == 1..MaxPage

Limits == 1..MaxLimit

ListNext ==
    \/ \E p \in ListCreateInputs : Create(p)
    \/ \E f \in Filters, page \in Pages, limit \in Limits : List(f, page, limit)

SpecList == Init /\ [][ListNext]_vars

----------------------------------------------------------------------------
(* Images.  Callers create root categories with fresh names and send any   *)
(* of image_id and image_url, on create and on update: image_id null,      *)
(* blank, the id of a file or an id no file has; image_url null or a url   *)
(* of the caller's.                                                         *)

RawImageIds == {NoStr, "", "f1", "zz"}

ImageUrls == {NoStr, "x"}

ImageKeys == SUBSET {"image_id", "image_url"}

ImageCreateInputs ==
    UNION {{[CreateInput(ToString(nextId), NoId, NoOrder)
                EXCEPT !.keys = K, !.image_id = ImageIdValidator(i), !.image_url = u] :
                i \in (IF "image_id" \in K THEN RawImageIds ELSE {NoStr}),
                u \in (IF "image_url" \in K THEN ImageUrls ELSE {NoStr})} :
           K \in ImageKeys}

ImagePatchInputs ==
    UNION {{[PatchInput(K, NoStr, NoId, NoOrder)
                EXCEPT !.image_id = ImageIdValidator(i), !.image_url = u] :
                i \in (IF "image_id" \in K THEN RawImageIds ELSE {NoStr}),
                u \in (IF "image_url" \in K THEN ImageUrls ELSE {NoStr})} :
           K \in ImageKeys}

ImageNext ==
    \/ \E p \in ImageCreateInputs : Create(p)
    \/ \E id \in Ids, p \in ImagePatchInputs : Update(id, p)

SpecImage == Init /\ [][ImageNext]_vars

----------------------------------------------------------------------------
(* Partial updates under a running clock.  Callers create categories with  *)
(* a fresh name, a description and an image, at the root or under the      *)
(* first category, and move them with patches of order; the patches of    *)
(* FramePatchInputs set any subset of the six fields.                      *)

FrameCreateInputs ==
    {[CreateInput(ToString(nextId), p, NoOrder)
         EXCEPT !.keys = {"description", "image_id"}, !.description = "d", !.image_id = "f1"] :
        p \in OrderParents}

FrameOrders == 0..1

FrameMoveInputs == Patches({"order"}, Names, OrderParents, FrameOrders)

FramePatchInputs ==
    UNION {{[PatchInput(K, n, p, o)
                EXCEPT !.description = d, !.image_id = ImageIdValidator(i), !.image_url = u] :
                n \in (IF "name" \in K THEN {"a"} ELSE {NoStr}),
                p \in (IF "parent_id" \in K THEN OrderParents ELSE {NoId}),
                o \in (IF "order" \in K THEN FrameOrders ELSE {NoOrder}),
                d \in (IF "description" \in K THEN {NoStr, "e"} ELSE {NoStr}),
                i \in (IF "image_id" \in K THEN {NoStr, "f1"} ELSE {NoStr}),
                u \in (IF "image_url" \in K THEN ImageUrls ELSE {NoStr})} :
           K \in SUBSET {"name", "description", "parent_id", "order", "image_id", "image_url"}}

FrameNext ==
    \/ Tick
    \/ \E p \in FrameCreateInputs : Create(p)
    \/ \E id \in Ids, p \in FrameMoveInputs : Update(id, p)

SpecFrame == Init /\ [][FrameNext]_vars

----------------------------------------------------------------------------
(* Explicit nulls.  Callers create root categories with fresh names and    *)
(* patch name and order, each with a value or with an explicit null.       *)

NullCreateInputs == {CreateInput(ToString(nextId), NoId, NoOrder)}

NullPatchInputs == Patches({"name", "order"}, {NoStr, "a"}, {NoId}, {NoOrder} \cup FrameOrders)

NullNext ==
    \/ \E p \in NullCreateInputs : Create(p)
    \/ \E id \in Ids, p \in NullPatchInputs : Update(id, p)

SpecNull == Init /\ [][NullNext]_vars

----------------------------------------------------------------------------
(* Racing moves.  Root categories are created one by one with the order    *)
(* the service gives them; then reorder_single calls run together, each    *)
(* taking its steps in order, in any interleaving.                         *)

\* request tasks are taken in order: call c starts when the calls before it have
FirstIdle(c) == calls[c].pc = "idle" /\ \A d \in Procs : d < c => calls[d].pc # "idle"

RaceCreateInputs == {CreateInput(ToString(nextId), NoId, NoOrder)}

RaceOrders == 0..MaxOrder

RaceMovesNext ==
    \/ AllIdle /\ \E p \in RaceCreateInputs : Create(p)
    \/ \E c \in Procs, id \in Ids, k \in RaceOrders : FirstIdle(c) /\ MoveRead(c, id, k)
    \/ \E c \in Procs : MoveShift(c)
    \/ \E c \in Procs : MovePlace(c)

SpecRaceMoves == Init /\ [][RaceMovesNext]_vars

----------------------------------------------------------------------------
(* Racing a delete.  Root categories are created one by one; then a        *)
(* delete runs together with a create under a stored or missing parent,    *)
(* with an update of an order, or with another delete.                     *)

RaceChildInputs == {CreateInput(ToString(nextId), parent, NoOrder) : parent \in Ids}

RaceOrderPatches == Patches({"order"}, Names, {NoId}, FrameOrders) \ {PatchInput({}, NoStr, NoId, NoOrder)}

RaceDeleteNext ==
    \/ AllIdle /\ \E p \in RaceCreateInputs : Create(p)
    \/ \E c \in Procs, p \in RaceChildInputs : FirstIdle(c) /\ CreateCheckParent(c, p)
    \/ \E c \in Procs : CreateCheckName(c)
    \/ \E c \in Procs : CreateNextOrder(c)
    \/ \E c \in Procs : CreateInsert(c)
    \/ \E c \in Procs, id \in Ids, p \in RaceOrderPatches : FirstIdle(c) /\ UpdateFind(c, id, p)
    \/ \E c \in Procs : UpdateCheckName(c)
    \/ \E c \in Procs : UpdateFindCollision(c)
    \/ \E c \in Procs : UpdateShift(c)
    \/ \E c \in Procs : UpdateSet(c)
    \/ \E c \in Procs, id \in Ids : FirstIdle(c) /\ DeleteFind(c, id)
    \/ \E c \in Procs : DeleteCheckChildren(c)
    \/ \E c \in Procs : DeleteRemove(c)

SpecRaceDelete == Init /\ [][RaceDeleteNext]_vars

----------------------------------------------------------------------------
(* Racing re-parenting.  Root categories are created one by one; then      *)
(* update calls that set parent_id run together.                           *)

RaceParentPatches == {PatchInput({"parent_id"}, NoStr, q, NoOrder) : q \in Ids}

RaceParentsNext ==
    \/ AllIdle /\ \E p \in RaceCreateInputs : Create(p)
    \/ \E c \in Procs, id \in Ids, p \in RaceParentPatches : FirstIdle(c) /\ UpdateFind(c, id, p)
    \/ \E c \in Procs : UpdateWalk(c)
    \/ \E c \in Procs : UpdateCheckParent(c)
    \/ \E c \in Procs : UpdateCheckName(c)
    \/ \E c \in Procs : UpdateSet(c)

SpecRaceParents == Init /\ [][RaceParentsNext]_vars

----------------------------------------------------------------------------
(* Racing names.  Categories are created one by one at the root or under   *)
(* the first category; then create and update calls that give a category   *)
(* the name "a", or move one, run together.                                *)

RaceNameSetup == {CreateInput(n, q, NoOrder) : n \in Names, q \in OrderParents}

RaceNameInputs == {CreateInput("a", q, NoOrder) : q \in OrderParents}

RaceNamePatches ==
    Patches({"name", "parent_id"}, {"a"}, OrderParents, FrameOrders)
        \ {PatchInput({}, NoStr, NoId, NoOrder)}

RaceNamesNext ==
    \/ AllIdle /\ \E p \in RaceNameSetup : Create(p)
    \/ \E c \in Procs, p \in RaceNameInputs : FirstIdle(c) /\ CreateCheckParent(c, p)
    \/ \E c \in Procs : CreateCheckName(c)
    \/ \E c \in Procs : CreateNextOrder(c)
    \/ \E c \in Procs : CreateInsert(c)
    \/ \E c \in Procs, id \in Ids, p \in RaceNamePatches : FirstIdle(c) /\ UpdateFind(c, id, p)
    \/ \E c \in Procs : UpdateWalk(c)
    \/ \E c \in Procs : UpdateCheckParent(c)
    \/ \E c \in Procs : UpdateCheckName(c)
    \/ \E c \in Procs : UpdateSet(c)

SpecRaceNames == Init /\ [][RaceNamesNext]_vars

----------------------------------------------------------------------------
(* One call at a time, step by step.  Callers send valid and invalid       *)
(* input of every kind: missing parents, taken names, own descendants as   *)
(* parents, an image_id that is in no file, negative orders.               *)

\* call c starts while no other call is in flight
Alone(c) == AllIdle /\ FirstIdle(c)

StepOrders == {-1, 0}

StepImageKeys == {{}, {"image_id"}}

StepParents == {NoId, 1, 2}

StepCreateInputs ==
    {[CreateInput(n, q, NoOrder) EXCEPT !.keys = K, !.image_id = "zz"] :
        n \in Names, q \in StepParents, K \in StepImageKeys}

StepPatchInputs ==
    UNION {{[PatchInput(S \cup K, n, q, o) EXCEPT !.image_id = "zz"] :
                n \in (IF "name" \in S THEN {"a"} ELSE {NoStr}),
                q \in (IF "parent_id" \in S THEN StepParents ELSE {NoId}),
                o \in (IF "order" \in S THEN StepOrders ELSE {NoOrder}),
                K \in StepImageKeys} :
           S \in SUBSET {"name", "parent_id", "order"}}

StepsNext ==
    \/ \E c \in Procs, p \in StepCreateInputs : Alone(c) /\ CreateCheckParent(c, p)
    \/ \E c \in Procs : CreateCheckName(c)
    \/ \E c \in Procs : CreateNextOrder(c)
    \/ \E c \in Procs : CreateInsert(c)
    \/ \E c \in Procs, id \in Ids, p \in StepPatchInputs : Alone(c) /\ UpdateFind(c, id, p)
    \/ \E c \in Procs : UpdateWalk(c)
    \/ \E c \in Procs : UpdateCheckParent(c)
    \/ \E c \in Procs : UpdateCheckName(c)
    \/ \E c \in Procs : UpdateFindCollision(c)
    \/ \E c \in Procs : UpdateShift(c)
    \/ \E c \in Procs : UpdateSet(c)
    \/ \E c \in Procs, id \in Ids : Alone(c) /\ DeleteFind(c, id)
    \/ \E c \in Procs : DeleteCheckChildren(c)
    \/ \E c \in Procs : DeleteRemove(c)
    \/ \E c \in Procs, id \in Ids, k \in StepOrders : Alone(c) /\ MoveRead(c, id, k)
    \/ \E c \in Procs : MoveShift(c)
    \/ \E c \in Procs : MovePlace(c)
    \/ \E c \in Procs : Return(c)

SpecSteps == Init /\ [][StepsNext]_vars

----------------------------------------------------------------------------
(* Properties of the tree *)

\* the categories whose parent_id is c, their children, and so on: the
\* least set closed under "child of", built in at most n rounds
RECURSIVE DescendantsIn(_, _, _)
DescendantsIn(s, S, n) ==
    IF n = 0 THEN S
    ELSE DescendantsIn(s, S \cup {d \in DOMAIN s : s[d].parent_id \in S}, n - 1)

Descendants(s, c) ==
    DescendantsIn(s, {d \in DOMAIN s : s[d].parent_id = c}, Cardinality(DOMAIN s))

\* C1: no two stored categories with the same parent_id (root included)
\* have the same name
NamesUniquePerParent ==
    \A c, d \in DOMAIN store :
        (c # d /\ store[c].parent_id = store[d].parent_id)
            => store[c].name # store[d].name

\* C1 witness: an update that set a name or a parent has succeeded and left
\* its category beside a sibling, while the other name is used elsewhere
NamesUniqueWitness ==
    /\ last.op = "update" /\ last.status = "ok" /\ last.set # {}
    /\ \E d \in DOMAIN store \ {last.id} :
          store[d].parent_id = store[last.id].parent_id
    /\ \E e \in DOMAIN store \ {last.id} :
          /\ store[e].name = store[last.id].name
          /\ store[e].parent_id # store[last.id].parent_id

\* C2: following parent_id links from a stored category never returns to
\* it (no category is among its own descendants)
ParentGraphAcyclic == \A c \in DOMAIN store : c \notin Descendants(store, c)

\* C2 witness: an update has moved a category under a parent that itself
\* has a parent (a chain of three)
ParentGraphWitness ==
    /\ last.op = "update" /\ last.status = "ok" /\ "parent_id" \in last.set
    /\ store[last.id].parent_id \in DOMAIN store
    /\ store[store[last.id].parent_id].parent_id \in DOMAIN store

\* C9: in every reachable state, an update of a stored id whose patch sets
\* parent_id to id or to a descendant of id fails with the cycle error and
\* leaves the collection as it was; one whose new parent is stored and is
\* neither id nor a descendant of id is not rejected as a cycle
CycleRejected ==
    \A id \in DOMAIN store, p \in TreePatchInputs :
        "parent_id" \in p.set =>
           /\ p.parent_id \in {id} \cup Descendants(store, id)
                 => /\ UpdateStatus(store, id, p) = "cycle"
                    /\ UpdateAfter(store, id, p, now + 1) = store
           /\ (p.parent_id \in DOMAIN store
               /\ p.parent_id \notin {id} \cup Descendants(store, id))
                 => UpdateStatus(store, id, p) # "cycle"

\* C9 witness: an update was rejected as a cycle while some category has a
\* grandchild (the new parent could be a descendant two levels down)
CycleRejectedWitness ==
    /\ last.op = "update" /\ last.status = "cycle"
    /\ \E c, d \in DOMAIN store :
          store[d].parent_id \in DOMAIN store
          /\ store[store[d].parent_id].parent_id = c

\* another category holds the effective (name, parent_id) of update(id, p),
\* a field absent from the patch taking id's current value
NameClash(s, id, p) ==
    \E c \in DOMAIN s \ {id} :
        /\ s[c].name = (IF "name" \in p.set THEN p.name ELSE s[id].name)
        /\ s[c].parent_id = (IF "parent_id" \in p.set THEN p.parent_id ELSE s[id].parent_id)

\* C10 as claimed: update of a stored id fails with the duplicate-name
\* error exactly when another category holds the effective (name, parent_id)
DuplicateExactlyOnClash ==
    \A id \in DOMAIN store, p \in TreePatchInputs :
        UpdateStatus(store, id, p) = "duplicate_name" <=> NameClash(store, id, p)

\* C10 amended: an update of a stored id that the parent checks let through
\* (no cycle, the new parent exists) fails with the duplicate-name error
\* exactly when another category holds the effective (name, parent_id), and
\* then changes nothing; an update stopped by the parent checks reports
\* that error, never the duplicate-name error
DuplicateOnClashAfterParentChecks ==
    \A id \in DOMAIN store, p \in TreePatchInputs :
        /\ UpdateStatus(store, id, p) \notin {"cycle", "parent_not_found"}
              => (UpdateStatus(store, id, p) = "duplicate_name" <=> NameClash(store, id, p))
        /\ UpdateStatus(store, id, p) = "duplicate_name"
              => (NameClash(store, id, p) /\ UpdateAfter(store, id, p, now + 1) = store)

\* C10 witness: an update was rejected for a duplicate name while the same
\* name lives under two different parents (a move would collide)
DuplicateOnClashWitness ==
    /\ last.op = "update" /\ last.status = "duplicate_name"
    /\ \E c, d \in DOMAIN store :
          store[c].name = store[d].name /\ store[c].parent_id # store[d].parent_id

----------------------------------------------------------------------------
(* Properties of the sibling order *)

\* the categories that share c's parent_id, c included
Family(s, c) == {d \in DOMAIN s : s[d].parent_id = s[c].parent_id}

\* the orders of the categories of G are pairwise distinct
DistinctOrders(s, G) == \A c, d \in G : c # d => s[c].order # s[d].order

\* the multiset of the orders of G: how many categories of G hold each order
OrderCount(s, G) ==
    [o \in (MinOrder - 1)..(OrderCap + 1) |-> Cardinality({c \in G : s[c].order = o})]

\* the orders of G are exactly 0..n-1 for its n categories
GapFree(s, G) ==
    /\ DistinctOrders(s, G)
    /\ \A c \in G : s[c].order \in 0..(Cardinality(G) - 1)

Min2(a, b) == IF a <= b THEN a ELSE b

Max2(a, b) == IF a >= b THEN a ELSE b

Sign(x) == IF x > 0 THEN 1 ELSE IF x < 0 THEN -1 ELSE 0

\* orders a caller of reorder_single may send and have accepted
MoveOrders == 0..MaxOrder

\* C3 as claimed: the orders of the categories sharing one parent_id are
\* pairwise distinct and all non-negative
OrdersDistinctNonNegative ==
    \A c \in DOMAIN store :
        /\ store[c].order >= 0
        /\ DistinctOrders(store, Family(store, c))

\* C4 as claimed: if the orders of id's family are pairwise distinct, then
\* after reorder_single(id, k) they still are, and if k was the order of
\* one of them the multiset of their orders is the same as before
MoveKeepsOrderMultiset ==
    \A id \in DOMAIN store, k \in MoveOrders :
        LET G  == Family(store, id)
            s2 == ReorderSingleAfter(store, id, k, now + 1)
        IN  DistinctOrders(store, G) =>
               /\ DistinctOrders(s2, G)
               /\ (\E c \in G : store[c].order = k)
                     => OrderCount(s2, G) = OrderCount(store, G)

\* C4 amended: if the orders of id's family are pairwise distinct, then
\* after reorder_single(id, k) they still are, and if every integer from
\* min(cur, k) to max(cur, k) was the order of one of them the multiset of
\* their orders is the same as before
MoveKeepsDistinctOrders ==
    \A id \in DOMAIN store, k \in MoveOrders :
        LET G   == Family(store, id)
            cur == store[id].order
            s2  == ReorderSingleAfter(store, id, k, now + 1)
        IN  DistinctOrders(store, G) =>
               /\ DistinctOrders(s2, G)
               /\ (\A o \in Min2(cur, k)..Max2(cur, k) : \E c \in G : store[c].order = o)
                     => OrderCount(s2, G) = OrderCount(store, G)

\* C4 witness: a reorder_single has moved a category across two siblings
\* of a family of three whose orders are pairwise distinct and whose
\* orders fill the whole range of the move
MoveKeepsDistinctWitness ==
    /\ last.op = "reorder_single" /\ last.status = "ok"
    /\ Max2(last.from, last.to) - Min2(last.from, last.to) = 2
    /\ Cardinality(Family(store, last.id)) = 3
    /\ DistinctOrders(store, Family(store, last.id))
    /\ \A o \in Min2(last.from, last.to)..Max2(last.from, last.to) :
          \E c \in Family(store, last.id) : store[c].order = o

\* C5 as claimed: if the orders of id's family are exactly 0..n-1, they are
\* again exactly 0..n-1 after reorder_single(id, k), for every k >= 0
MoveKeepsGapFree ==
    \A id \in DOMAIN store, k \in MoveOrders :
        GapFree(store, Family(store, id))
            => GapFree(ReorderSingleAfter(store, id, k, now + 1), Family(store, id))

\* the family G as the list of its ids by ascending order (orders 0..n-1)
ByOrder(s, G) == [i \in 1..Cardinality(G) |-> CHOOSE c \in G : s[c].order = i - 1]

\* the list without its element x
Without(seq, x) == SelectSeq(seq, LAMBDA y : y # x)

\* the list with x put in at index k, counted from 0
InsertAt(seq, k, x) == SubSeq(seq, 1, k) \o <<x>> \o SubSeq(seq, k + 1, Len(seq))

\* C6: reorder_single(id, k) with k different from id's order cur sets id's
\* order to k and changes the order of every other category of the same
\* parent whose order lies in [min(cur,k), max(cur,k)] by -sign(k - cur);
\* for a family ordered 0..n-1 and k < n the result is the list with id
\* taken out and put back at index k
MoveShiftsRange ==
    \A id \in DOMAIN store, k \in MoveOrders :
        LET G   == Family(store, id)
            cur == store[id].order
            s2  == ReorderSingleAfter(store, id, k, now + 1)
        IN  k # cur =>
               /\ s2[id].order = k
               /\ \A c \in G \ {id} :
                     (store[c].order >= Min2(cur, k) /\ store[c].order <= Max2(cur, k))
                        => s2[c].order = store[c].order - Sign(k - cur)
               /\ (GapFree(store, G) /\ k < Cardinality(G))
                     => /\ GapFree(s2, G)
                        /\ ByOrder(s2, G) = InsertAt(Without(ByOrder(store, G), id), k, id)

\* C6 witness: a reorder_single has moved a category from one end to the
\* other of a family of three ordered 0, 1, 2
MoveShiftsRangeWitness ==
    /\ last.op = "reorder_single" /\ last.status = "ok"
    /\ {last.from, last.to} = {0, 2}
    /\ Cardinality(Family(store, last.id)) = 3
    /\ GapFree(store, Family(store, last.id))

\* the record with its order and updated_at taken from another record
WithOrderOf(r, old) == [r EXCEPT !.order = old.order, !.updated_at = old.updated_at]

\* C7: reorder_single(id, k) changes no category under another parent_id,
\* no sibling whose order lies outside [min(cur,k), max(cur,k)], and no
\* field but order and updated_at; with k equal to id's order it succeeds
\* and changes nothing at all, whatever the clock reads
MoveFrame ==
    \A id \in DOMAIN store, k \in MoveOrders, t \in {now, now + 1} :
        LET cur == store[id].order
            s2  == ReorderSingleAfter(store, id, k, t)
        IN  /\ DOMAIN s2 = DOMAIN store
            /\ \A c \in DOMAIN store :
                  /\ store[c].parent_id # store[id].parent_id => s2[c] = store[c]
                  /\ (c # id /\ (store[c].order < Min2(cur, k) \/ store[c].order > Max2(cur, k)))
                        => s2[c] = store[c]
                  /\ WithOrderOf(s2[c], store[c]) = store[c]
            /\ k = cur => (ReorderSingleStatus(store, id, k) = "ok" /\ s2 = store)

\* C7 witness: after the clock has advanced, a reorder_single has moved a
\* category while a sibling lay outside the range of the move and another
\* category lived under a different parent
MoveFrameWitness ==
    /\ last.op = "reorder_single" /\ last.status = "ok" /\ last.from # last.to
    /\ now > 0
    /\ \E c \in Family(store, last.id) \ {last.id} :
          store[c].order > Max2(last.from, last.to) /\ store[c].updated_at < now
    /\ \E d \in DOMAIN store : store[d].parent_id # store[last.id].parent_id

\* C8: create with order omitted stores the new category with order 0 when
\* its parent has no children, and otherwise with 1 + the highest order of
\* the categories of that parent, above the order of every one of them
CreateAppends ==
    \A p \in OrderCreateInputs :
        (p.order = NoOrder /\ CreateStatus(store, p) = "ok") =>
            LET G == {c \in DOMAIN store : store[c].parent_id = p.parent_id}
                n == CreateAfter(store, p, nextId, now)[nextId].order
            IN  /\ G = {} => n = 0
                /\ G # {} => /\ \E c \in G : store[c].order = n - 1
                             /\ \A c \in G : store[c].order < n

\* C8 witness: a create without an order has put the new category after a
\* lone sibling whose order is not 0
CreateAppendsWitness ==
    /\ last.op = "create" /\ last.status = "ok" /\ last.set = {}
    /\ \E c \in DOMAIN store \ {last.id} :
          /\ Family(store, last.id) = {c, last.id}
          /\ store[c].order > 0
          /\ store[last.id].order = store[c].order + 1

\* C11: after a successful update(id, patch) whose patch carries order = k,
\* id has order k and no other category under id's post-patch parent has
\* order k; if one of them had order k, each of them with order >= k has
\* gained exactly 1 and those with order < k kept theirs; if none had
\* order k, each of them kept its order
PatchOrderMakesRoom ==
    \A id \in DOMAIN store, p \in OrderPatchInputs :
        ("order" \in p.set /\ p.order # NoOrder /\ UpdateStatus(store, id, p) = "ok") =>
            LET k   == p.order
                par == IF "parent_id" \in p.set THEN p.parent_id ELSE store[id].parent_id
                G   == {c \in DOMAIN store \ {id} : store[c].parent_id = par}
                s2  == UpdateAfter(store, id, p, now + 1)
            IN  /\ s2[id].order = k
                /\ s2[id].parent_id = par
                /\ \A c \in G : s2[c].parent_id = par /\ s2[c].order # k
                /\ IF \E c \in G : store[c].order = k
                   THEN \A c \in G :
                           s2[c].order = IF store[c].order >= k
                                         THEN store[c].order + 1 ELSE store[c].order
                   ELSE \A c \in G : s2[c].order = store[c].order

\* C11 witness: an update carrying an order has taken the order of a sibling
\* and moved two siblings up, or has moved one up and left a lower one
PatchOrderMakesRoomWitness ==
    /\ last.op = "update" /\ last.status = "ok" /\ "order" \in last.set
    /\ last.to >= 1
    /\ Cardinality(Family(store, last.id)) = 3
    /\ \E c \in Family(store, last.id) : store[c].order = store[last.id].order + 1
    /\ \/ last.to = 2
       \/ \E c \in Family(store, last.id) : store[c].order < store[last.id].order

----------------------------------------------------------------------------
(* Properties of delete *)

\* C12: delete(id) of a stored category that has at least one child fails
\* with the has-children error and removes neither id nor any of its
\* descendants: the collection is left as it was
DeleteKeepsParents ==
    \A id \in DOMAIN store :
        (\E c \in DOMAIN store : store[c].parent_id = id) =>
            /\ DeleteStatus(store, id) = "has_children"
            /\ ({id} \cup Descendants(store, id)) \subseteq DOMAIN DeleteAfter(store, id)
            /\ DeleteAfter(store, id) = store

\* C12 witness: a delete was refused for children while a category had a
\* child and a grandchild
DeleteKeepsParentsWitness ==
    /\ last.op = "delete" /\ last.status = "has_children"
    /\ \E c, d \in DOMAIN store :
          store[d].parent_id \in DOMAIN store
          /\ store[store[d].parent_id].parent_id = c

\* C13: delete(id) of a stored category without children reports success
\* and removes exactly that record; delete of an id that is not stored
\* reports not-found and removes nothing; either way every other category
\* is as before, the orders of the remaining siblings included
DeleteFrame ==
    \A id \in Ids :
        LET s2 == DeleteAfter(store, id)
        IN  /\ (id \in DOMAIN store /\ ~\E c \in DOMAIN store : store[c].parent_id = id)
                  => (DeleteStatus(store, id) = "ok" /\ DOMAIN s2 = DOMAIN store \ {id})
            /\ id \notin DOMAIN store
                  => (DeleteStatus(store, id) = "not_found" /\ s2 = store)
            /\ \A c \in DOMAIN store \ {id} : c \in DOMAIN s2 /\ s2[c] = store[c]

\* C13 witness: a delete has removed a category from between two siblings,
\* which keep their orders on either side of the hole
DeleteFrameWitness ==
    /\ last.op = "delete" /\ last.status = "ok"
    /\ \E c, d \in DOMAIN store :
          /\ store[c].parent_id = last.to /\ store[d].parent_id = last.to
          /\ store[c].order < last.from /\ store[d].order > last.from

----------------------------------------------------------------------------
(* Properties of the bulk reorder *)

\* every id of the batch is the id of a stored category
AllStored(s, items) == \A i \in 1..Len(items) : items[i].id \in DOMAIN s

\* the categories the batch names all have the same parent_id
OneParent(s, items) ==
    \A i, j \in 1..Len(items) : s[items[i].id].parent_id = s[items[j].id].parent_id

\* the orders of the batch are pairwise distinct and none is negative
OrdersValid(items) ==
    /\ \A i \in 1..Len(items) : items[i].order >= 0
    /\ \A i, j \in 1..Len(items) : i # j => items[i].order # items[j].order

\* C14: reorder(items) succeeds exactly when every item's id is stored, the
\* categories named all have the same parent_id, and the orders of the
\* batch are pairwise distinct and non-negative (the empty batch succeeds)
ReorderSucceedsIffValid ==
    \A items \in BatchInputs :
        ReorderStatus(store, items) = "ok"
            <=> (AllStored(store, items) /\ OneParent(store, items) /\ OrdersValid(items))

\* C14 witness: a batch of two stored categories with valid orders was
\* refused because the two have different parents
ReorderSucceedsIffValidWitness ==
    /\ last.op = "reorder" /\ last.status = "mixed_parents" /\ last.from = 2
    /\ \E c, d \in DOMAIN store : store[c].parent_id # store[d].parent_id

\* C15: when a batch names an unknown id, carries a negative order or the
\* same order twice, or names categories of different parents, reorder
\* leaves the order and updated_at of every category as they were, wherever
\* the offending item stands in the batch
ReorderFailsWithoutWrite ==
    \A items \in BatchInputs :
        ~(AllStored(store, items) /\ OneParent(store, items) /\ OrdersValid(items)) =>
            LET s2 == ReorderAfter(store, items, now + 1)
            IN  /\ DOMAIN s2 = DOMAIN store
                /\ \A c \in DOMAIN store :
                      s2[c].order = store[c].order /\ s2[c].updated_at = store[c].updated_at

\* C15 witness: a batch failed at its second item, after a first item that
\* named a stored category and a valid order
ReorderFailsWithoutWriteWitness ==
    /\ last.op = "reorder" /\ last.from = 2 /\ last.to = 2
    /\ last.status \in {"not_found", "invalid_order", "duplicate_order"}
    /\ DOMAIN store # {}

\* C16 as claimed: after reorder(items) succeeds, the category named by
\* each item has that item's order, and every category the batch does not
\* name is unchanged
ReorderSetsListedOrders ==
    \A items \in BatchInputs :
        ReorderStatus(store, items) = "ok" =>
            LET s2 == ReorderAfter(store, items, now + 1)
            IN  /\ \A i \in 1..Len(items) : s2[items[i].id].order = items[i].order
                /\ \A c \in DOMAIN store :
                      (\A i \in 1..Len(items) : items[i].id # c) => s2[c] = store[c]

----------------------------------------------------------------------------
(* Properties of list *)

\* the sort key (parent_id, order) of c comes strictly before that of d
KeyBefore(s, c, d) ==
    \/ s[c].parent_id < s[d].parent_id
    \/ s[c].parent_id = s[d].parent_id /\ s[c].order < s[d].order

\* C17: for every filter, page p >= 1 and limit L >= 1, list returns as
\* total the number of categories matching the filter and exactly
\* min(L, max(0, total - (p-1)*L)) items; the items are distinct matching
\* categories in ascending (parent_id, order), and the i-th of them stands
\* at position (p-1)*L + i of the sorted matching categories: fewer than
\* that many have a key before its key, and at least that many have a key
\* not after it
ListReturnsPage ==
    \A f \in Filters, p \in Pages, L \in Limits :
        LET M     == {c \in DOMAIN store :
                         /\ ("name" \in f.keys => store[c].name = f.name)
                         /\ ("parent_id" \in f.keys => store[c].parent_id = f.parent_id)}
            total == Cardinality(M)
            rest  == total - (p - 1) * L
        IN  /\ ListTotal(store, f) = total
            /\ ListItems(store, f, p, L) # {}
            /\ \A r \in ListItems(store, f, p, L) :
                  /\ Len(r) = Min2(L, Max2(0, rest))
                  /\ \A i \in 1..Len(r) : r[i] \in M
                  /\ \A i, j \in 1..Len(r) : i # j => r[i] # r[j]
                  /\ \A i, j \in 1..Len(r) : i < j => ~KeyBefore(store, r[j], r[i])
                  /\ \A i \in 1..Len(r) :
                        /\ Cardinality({c \in M : KeyBefore(store, c, r[i])})
                              < (p - 1) * L + i
                        /\ Cardinality({c \in M : ~KeyBefore(store, r[i], c)})
                              >= (p - 1) * L + i

\* C17 witness: a list call has returned a short last page (one item of a
\* total of three) whose first item is a child category
ListReturnsPageWitness ==
    /\ last.op = "list" /\ last.from = 3 /\ last.to = 1
    /\ last.id \in DOMAIN store /\ store[last.id].parent_id # NoId

----------------------------------------------------------------------------
(* Properties of the image fields *)

\* C18: a create or an update whose input carries image_id as null or blank
\* stores image_id and image_url as null, also when the input carries an
\* image_url; an update that carries the id of a file succeeds again when
\* it is repeated, and stores the same image_url both times: the file's
\* url when the input carries no image_url; and an update that carries
\* only the image_id a create has just resolved stores the same image_url
\* as the create
ClearAndRefillImage ==
    /\ \A p \in ImageCreateInputs :
          ("image_id" \in p.keys /\ p.image_id \in {NoStr, ""}
           /\ CreateStatus(store, p) = "ok") =>
              LET s1 == CreateAfter(store, p, nextId, now)
              IN  s1[nextId].image_id = NoStr /\ s1[nextId].image_url = NoStr
    /\ \A id \in DOMAIN store, p \in ImagePatchInputs :
          ("image_id" \in p.set /\ p.image_id \in {NoStr, ""}
           /\ UpdateStatus(store, id, p) = "ok") =>
              LET s1 == UpdateAfter(store, id, p, now)
              IN  s1[id].image_id = NoStr /\ s1[id].image_url = NoStr
    /\ \A id \in DOMAIN store, p \in ImagePatchInputs :
          ("image_id" \in p.set /\ p.image_id \in DOMAIN Files
           /\ UpdateStatus(store, id, p) = "ok") =>
              LET s1 == UpdateAfter(store, id, p, now)
                  s2 == UpdateAfter(s1, id, p, now + 1)
              IN  /\ UpdateStatus(s1, id, p) = "ok"
                  /\ s1[id].image_id = p.image_id /\ s2[id].image_id = p.image_id
                  /\ s2[id].image_url = s1[id].image_url
                  /\ "image_url" \notin p.set => s1[id].image_url = Files[p.image_id]
    /\ \A p \in ImageCreateInputs :
          (p.keys = {"image_id"} /\ p.image_id \in DOMAIN Files
           /\ CreateStatus(store, p) = "ok") =>
              LET s1 == CreateAfter(store, p, nextId, now)
                  q  == [PatchInput({"image_id"}, NoStr, NoId, NoOrder)
                            EXCEPT !.image_id = p.image_id]
                  s2 == UpdateAfter(s1, nextId, q, now + 1)
              IN  /\ UpdateStatus(s1, nextId, q) = "ok"
                  /\ s2[nextId].image_url = s1[nextId].image_url
                  /\ s1[nextId].image_url = Files[p.image_id]

\* C18 witness: an update carrying image_id and image_url has cleared the
\* image of a category, while another category holds a file's id and url
ClearAndRefillImageWitness ==
    /\ last.op = "update" /\ last.status = "ok"
    /\ last.set = {"image_id", "image_url"}
    /\ store[last.id].image_id = NoStr /\ store[last.id].image_url = NoStr
    /\ \E c \in DOMAIN store :
          store[c].image_id \in DOMAIN Files /\ store[c].image_url = Files[store[c].image_id]

\* C19 as claimed: a create or an update that carries a non-empty image_id
\* no file has fails with the invalid-image-id error and stores nothing,
\* whatever else it carries; and every stored image_id is the id of a file
UnresolvedImageRejected ==
    /\ \A p \in ImageCreateInputs :
          ("image_id" \in p.keys /\ p.image_id \notin {NoStr, ""}
           /\ p.image_id \notin DOMAIN Files) =>
              /\ CreateStatus(store, p) = "invalid_image"
              /\ CreateAfter(store, p, nextId, now) = store
    /\ \A id \in DOMAIN store, p \in ImagePatchInputs :
          ("image_id" \in p.set /\ p.image_id \notin {NoStr, ""}
           /\ p.image_id \notin DOMAIN Files) =>
              /\ UpdateStatus(store, id, p) = "invalid_image"
              /\ UpdateAfter(store, id, p, now) = store
    /\ \A c \in DOMAIN store :
          store[c].image_id # NoStr => store[c].image_id \in DOMAIN Files

----------------------------------------------------------------------------
(* Properties of the partial update *)

\* update(id, p) leaves in record r2 of id every field of r that is absent
\* from the patch, but for updated_at and for an image_url that goes with a
\* patched image_id; created_at stays
OwnFieldsKept(r, r2, p) ==
    /\ "name" \notin p.set => r2.name = r.name
    /\ "description" \notin p.set => r2.description = r.description
    /\ "parent_id" \notin p.set => r2.parent_id = r.parent_id
    /\ "order" \notin p.set => r2.order = r.order
    /\ "image_id" \notin p.set => r2.image_id = r.image_id
    /\ ("image_url" \notin p.set /\ "image_id" \notin p.set) => r2.image_url = r.image_url
    /\ r2.created_at = r.created_at

\* c is a sibling the order-collision rule of update(id, p) shifts: the
\* patch carries an order k that another category under id's post-patch
\* parent holds, and c is another category under that parent with order >= k
ShiftedByRule(s, id, p, c) ==
    LET par == IF "parent_id" \in p.set THEN p.parent_id ELSE s[id].parent_id
    IN  /\ "order" \in p.set /\ p.order # NoOrder
        /\ c # id /\ s[c].parent_id = par /\ s[c].order >= p.order
        /\ \E d \in DOMAIN s \ {id} : s[d].parent_id = par /\ s[d].order = p.order

\* C20 as claimed: a successful update(id, patch) leaves every field of id
\* absent from the patch unchanged, except updated_at and the image_url
\* that goes with a patched image_id; id and created_at stay; and no other
\* category changes, except that the order of each sibling shifted by the
\* order-collision rule goes up by 1
UpdateFrameOrdersOnly ==
    \A id \in DOMAIN store, p \in FramePatchInputs :
        UpdateStatus(store, id, p) = "ok" =>
            LET s2 == UpdateAfter(store, id, p, now)
            IN  /\ DOMAIN s2 = DOMAIN store
                /\ OwnFieldsKept(store[id], s2[id], p)
                /\ \A c \in DOMAIN store \ {id} :
                      IF ShiftedByRule(store, id, p, c)
                      THEN s2[c] = [store[c] EXCEPT !.order = @ + 1]
                      ELSE s2[c] = store[c]

\* C20 amended: the same, except that each sibling shifted by the
\* order-collision rule has its order raised by 1 and its updated_at set to
\* the time of the call
UpdateFrame ==
    \A id \in DOMAIN store, p \in FramePatchInputs :
        UpdateStatus(store, id, p) = "ok" =>
            LET s2 == UpdateAfter(store, id, p, now)
            IN  /\ DOMAIN s2 = DOMAIN store
                /\ OwnFieldsKept(store[id], s2[id], p)
                /\ \A c \in DOMAIN store \ {id} :
                      IF ShiftedByRule(store, id, p, c)
                      THEN s2[c] = [store[c] EXCEPT !.order = @ + 1, !.updated_at = now]
                      ELSE s2[c] = store[c]

\* C20 witness: after the clock has advanced, an update carrying only an
\* order has shifted a sibling created earlier, and its own name,
\* description, parent and image are those it was created with
UpdateFrameWitness ==
    /\ last.op = "update" /\ last.status = "ok" /\ last.set = {"order"}
    /\ last.to >= 1 /\ now > 0
    /\ store[last.id].description = "d" /\ store[last.id].image_id = "f1"
    /\ store[last.id].image_url = Files["f1"]
    /\ store[last.id].created_at < store[last.id].updated_at
    /\ \E c \in Family(store, last.id) \ {last.id} :
          /\ store[c].order > store[last.id].order
          /\ store[c].created_at < now /\ store[c].updated_at = now

----------------------------------------------------------------------------
(* Properties of repeated calls *)

\* the collection with every updated_at left out of account
IgnoringUpdatedAt(s) == [c \in DOMAIN s |-> [s[c] EXCEPT !.updated_at = 0]]

\* C21: for update, delete, reorder and reorder_single, the same call with
\* the same arguments run twice in succession leaves the collection,
\* updated_at apart, as running it once does: the second run shifts no
\* sibling and removes nothing
RetryChangesNothing ==
    /\ \A id \in Ids, p \in OrderPatchInputs :
          LET s1 == UpdateAfter(store, id, p, now)
          IN  IgnoringUpdatedAt(UpdateAfter(s1, id, p, now + 1)) = IgnoringUpdatedAt(s1)
    /\ \A id \in Ids :
          LET s1 == DeleteAfter(store, id)
          IN  DeleteAfter(s1, id) = s1
    /\ \A items \in BatchInputs :
          LET s1 == ReorderAfter(store, items, now)
          IN  IgnoringUpdatedAt(ReorderAfter(s1, items, now + 1)) = IgnoringUpdatedAt(s1)
    /\ \A id \in Ids, k \in OrderInputs :
          LET s1 == ReorderSingleAfter(store, id, k, now)
          IN  IgnoringUpdatedAt(ReorderSingleAfter(s1, id, k, now + 1)) = IgnoringUpdatedAt(s1)

\* C21 witness: an update carrying an order has shifted two siblings (a
\* second shift would move them again)
RetryChangesNothingWitness ==
    /\ last.op = "update" /\ last.status = "ok" /\ last.to = 2
    /\ \A c \in Family(store, last.id) \ {last.id} : store[c].order > store[last.id].order

----------------------------------------------------------------------------
(* Properties of calls run one at a time *)

\* C27: every stored category's parent_id is None or the id of a stored
\* category
NoOrphans ==
    \A c \in DOMAIN store : store[c].parent_id = NoId \/ store[c].parent_id \in DOMAIN store

\* C27 witness: a delete has removed a category while another category
\* still has its parent, and some id has been deleted or never stored
NoOrphansWitness ==
    /\ last.op = "delete" /\ last.status = "ok"
    /\ \E c \in DOMAIN store : store[c].parent_id \in DOMAIN store
    /\ \E i \in Ids : i \notin DOMAIN store

\* C29 as claimed: every stored category has an integer order and a name,
\* neither of them null, and _next_order can compute the next order under
\* every parent
OrderAndNameNeverNull ==
    /\ \A c \in DOMAIN store : store[c].order # NoOrder /\ store[c].name # NoStr
    /\ \A p \in {NoId} \cup DOMAIN store : ~NextOrderRaises(store, p)

----------------------------------------------------------------------------
\* C25: when reorder_single calls on siblings with pairwise distinct orders
\* have run together and all returned, the orders of the siblings under
\* every parent are still pairwise distinct and non-negative.
RacingMovesKeepOrders ==
    (AllDone /\ \A c \in Procs : calls[c].op = "reorder_single" /\ calls[c].status = "ok")
    => \A a, b \in DOMAIN store :
           /\ store[a].order >= 0
           /\ (a # b /\ store[a].parent_id = store[b].parent_id
                  => store[a].order # store[b].order)

----------------------------------------------------------------------------
\* C26: when a create under parent P has run together with a delete of P and
\* both have returned or raised, no stored category has a parent_id that
\* refers to a category no longer stored.
RacingDeleteLeavesNoOrphan ==
    (/\ AllDone
     /\ \E c, d \in Procs : /\ calls[c].op = "create"
                            /\ calls[d].op = "delete"
                            /\ calls[d].id = calls[c].parent)
    => \A a \in DOMAIN store : store[a].parent_id # NoId => store[a].parent_id \in DOMAIN store

----------------------------------------------------------------------------
\* C30: an update that returned None (not found), whether at its first read
\* or because a delete running with it removed the category before the final
\* write, has modified no category.
LostUpdateWroteNothing ==
    \A c \in Procs :
        (calls[c].op = "update" /\ calls[c].pc = "done" /\ calls[c].status = "not_found")
        => ~calls[c].wrote

----------------------------------------------------------------------------
\* C23: in every reachable state of the store, states reached through calls
\* that ran together included, the ancestor walk of the cycle validation
\* ends for every category and every stored new parent.
WalkAlwaysEnds ==
    \A id \in DOMAIN store, q \in DOMAIN store : ValidateNoLoop(store, id, q) # "diverge"

----------------------------------------------------------------------------
\* C24: when update calls that change parent_id have run together, each
\* passing its loop check before the other's write, no category is its own
\* ancestor.
RacingUpdatesKeepAcyclic ==
    (AllDone /\ \A c \in Procs : calls[c].op = "update")
    => \A a \in DOMAIN store : a \notin Descendants(store, a)

----------------------------------------------------------------------------
\* C22: with the unique (parent_id, name) index in place, in every
\* interleaving of create and update calls no two stored categories under
\* one parent share a name (of two calls that passed the name pre-check
\* for the same pair, the index refuses the write that comes second).
IndexKeepsNamesUnique ==
    \A a, b \in DOMAIN store :
        a # b => ~(store[a].name = store[b].name /\ store[a].parent_id = store[b].parent_id)

\* a write was refused by the index after its call had passed the pre-check,
\* and the pair it asked for is held by the category another call wrote
IndexKeepsNamesUniqueWitness ==
    \E c, d \in Procs :
        /\ c # d
        /\ calls[c].pc = "done" /\ calls[c].status = "duplicate_key"
        /\ calls[d].pc = "done" /\ calls[d].status = "ok" /\ calls[d].wrote
        /\ calls[d].name = calls[c].name /\ calls[d].parent = calls[c].parent
        /\ \E a \in DOMAIN store :
               store[a].name = calls[c].name /\ store[a].parent_id = calls[c].parent

----------------------------------------------------------------------------
\* the errors of create, update, delete and reorder_single: missing parent,
\* duplicate name, cycle, invalid image_id, negative order, has children,
\* not found
ListedErrors ==
    {"parent_not_found", "duplicate_name", "cycle", "invalid_image",
     "negative_order", "has_children", "not_found"}

\* C28: a create, update, delete or reorder_single call that ends in one of
\* the listed errors has changed nothing in the store, and an update writes
\* nothing (its sibling shift included) while one of its validations is
\* still to run.
ErrorLeavesStoreUnchanged ==
    \A c \in Procs :
        /\ (calls[c].pc = "done" /\ calls[c].status \in ListedErrors) => ~calls[c].wrote
        /\ (calls[c].op = "update" /\ calls[c].pc \in {"walk", "parent", "name", "collide", "shift"})
               => ~calls[c].wrote

\* an update that asked for an order a sibling holds, so that a shift was
\* due, ended in an error of its validations
ErrorLeavesStoreUnchangedWitness ==
    \E c \in Procs :
        /\ calls[c].op = "update" /\ calls[c].pc = "done"
        /\ calls[c].status \in {"duplicate_name", "invalid_image", "cycle", "parent_not_found"}
        /\ OrderGiven(calls[c].p)
        /\ calls[c].id \in DOMAIN store
        /\ \E d \in Siblings(store, EffParent(store, calls[c].id, calls[c].p)) \ {calls[c].id} :
               store[d].order = calls[c].p.order
        /\ ~calls[c].wrote

====
